---------------------------- MODULE Spec2Model ----------------------------
(***************************************************************************)
(* Verification model of the CV Optimization Assistant (cv-tailor).        *)
(*                                                                         *)
(*   SpecKB    the Knowledge Access Layer of app/mcp_sdk_client.py:        *)
(*             concurrent get_kb_text coroutines, the session lock, the    *)
(*             process-wide _MCP_AVAILABLE flag and close().               *)
(*                                                                         *)
(*   SpecNorm  the Response Normalizer, parse_json_from_llm, run on texts   *)
(*             put together from fences and payload pieces.                *)
(*   SpecHeur  the heuristic analysis: missing keywords and match level.   *)
(*   SpecExt   the Extraction Engine run on skill sections and on posting  *)
(*             sections.                                                   *)
(*   SpecPipe  one pipeline run: parsing, analysis, rewriting, with every  *)
(*             answer of the reasoning service.                            *)
(*                                                                         *)
(* Coroutines are modelled with one action per run between two points      *)
(* where the coroutine can be suspended (an await that really waits).      *)
(***************************************************************************)
EXTENDS Integers, Sequences, FiniteSets, TLC

VARIABLES
    \* ---- Knowledge Access Layer (app/mcp_sdk_client.py) ----
    mcpAvailable,       \* module global _MCP_AVAILABLE
    mcpDisabledReason,  \* module global _MCP_DISABLED_REASON
    enabled,            \* FilesystemMCPClient.enabled
    session,            \* FilesystemMCPClient._session (0 is None)
    lockHolder,         \* owner of _session_lock (0 when unlocked)
    lockWaiters,        \* FIFO of coroutines waiting in _session_lock.acquire()
    contextStack,       \* FilesystemMCPClient._context_stack
    req,                \* per get_kb_text call: position and locals
    closer,             \* the coroutine running close(): position and iterator
    nextSid,            \* identity of the next session to be set up
    liveCtx,            \* contexts entered and not yet exited
    releaseLog,         \* contexts in the order __aexit__ was called on them (and whether it raised)
    everFailed,         \* a session-based retrieval has raised into get_kb_text
    \* ---- Response Normalizer (app/agents.py, parse_json_from_llm) ----
    nin,                \* the text handed to parse_json_from_llm, in its parts
    nout,               \* what parse_json_from_llm(opening + payload + closing) did
    nbare,              \* what parse_json_from_llm(payload) did
    \* ---- Heuristic analysis (app/agents.py) ----
    hin,                \* the skill lists the heuristics are run on
    hout,               \* position, and what the heuristics returned
    \* ---- Extraction Engine (app/agents.py) ----
    xin,                \* the text an extractor is run on, in its parts
    xout,               \* position, and the list the extractor returned
    \* ---- Pipeline (app/graph.py, app/agents.py) ----
    stage,              \* where the run is: Start, Parsed, Analyzed, Rewritten, Done, Failed
    state,              \* the GraphState dict handed from node to node
    trace,              \* the nodes in the order they were started
    llmCalls,           \* the chains in the order they were invoked
    replies,            \* what the reasoning service did in each chain.ainvoke
    gateway,            \* what _generate_analysis_summary and _generate_rewrites returned
    escaped             \* the exception that left the run ("" while none has)

kbVars == <<mcpAvailable, mcpDisabledReason, enabled, session,
            lockHolder, lockWaiters, contextStack, req, closer, nextSid,
            liveCtx, releaseLog, everFailed>>

normVars == <<nin, nout, nbare>>

heurVars == <<hin, hout>>

extVars == <<xin, xout>>

pipeVars == <<stage, state, trace, llmCalls, replies, gateway, escaped>>

vars == <<kbVars, normVars, heurVars, extVars, pipeVars>>

\* what the actions of each component leave alone
nonKbVars == <<normVars, heurVars, extVars, pipeVars>>

nonNormVars == <<kbVars, heurVars, extVars, pipeVars>>

nonHeurVars == <<kbVars, normVars, extVars, pipeVars>>

nonPipeVars == <<kbVars, normVars, heurVars, extVars>>

nonExtVars == <<kbVars, normVars, heurVars, pipeVars>>

-----------------------------------------------------------------------------
(* Bounds *)

MaxPayloadPieces == 3   \* pieces a payload text is put together from

MaxCvSkills == 2        \* skills of the resume handed to the heuristics
MaxRequiredSkills == 5  \* required skills of the posting handed to the heuristics

MaxSkillTokens == 3     \* tokens of the skills section an extractor is run on
MaxSectionItems == 4    \* lines below the header of the posting section

NumRequests == 2        \* get_kb_text calls in one process
MaxCloses == 1          \* close() calls in one process

Requests == 1..NumRequests

-----------------------------------------------------------------------------
(* Text: Python's str operations on the characters the model uses.          *)
(* LineSep stands for U+2028 LINE SEPARATOR (as does U+0085): str.isspace   *)
(* holds of it and str.splitlines breaks a line at it, while in JSON it is  *)
(* no whitespace and may stand unescaped inside a string.                   *)
(* A string of the module cannot hold a backquote: "^" stands for it, so    *)
(* Fence is the three backquotes that open and close a Markdown code block. *)

LineSep == "~"

Fence == "^^^"

Char(s, i) == IF i >= 1 /\ i <= Len(s) THEN SubSeq(s, i, i) ELSE ""

\* the characters str.isspace holds of
Whitespace == {" ", "\n", LineSep}

\* the line boundaries of str.splitlines
LineBreaks == {"\n", LineSep}

\* the first position from i on whose character is in chars, 0 when there is none
FirstIn(s, i, chars) ==
    IF \E j \in i..Len(s) : Char(s, j) \in chars
    THEN CHOOSE j \in i..Len(s) :
             Char(s, j) \in chars /\ \A k \in i..(j - 1) : Char(s, k) \notin chars
    ELSE 0

\* the first position from i on whose character is not in chars, 0 when there is none
FirstNotIn(s, i, chars) ==
    IF \E j \in i..Len(s) : Char(s, j) \notin chars
    THEN CHOOSE j \in i..Len(s) :
             Char(s, j) \notin chars /\ \A k \in i..(j - 1) : Char(s, k) \in chars
    ELSE 0

\* the last position whose character is not in chars, 0 when there is none
LastNotIn(s, chars) ==
    IF \E j \in 1..Len(s) : Char(s, j) \notin chars
    THEN CHOOSE j \in 1..Len(s) :
             Char(s, j) \notin chars /\ \A k \in (j + 1)..Len(s) : Char(s, k) \in chars
    ELSE 0

\* str.lstrip(chars)
LStripChars(s, chars) ==
    IF FirstNotIn(s, 1, chars) = 0 THEN "" ELSE SubSeq(s, FirstNotIn(s, 1, chars), Len(s))

\* str.rstrip(chars)
RStripChars(s, chars) == SubSeq(s, 1, LastNotIn(s, chars))

\* str.strip(chars)
StripChars(s, chars) == RStripChars(LStripChars(s, chars), chars)

LStrip(s) == LStripChars(s, Whitespace)

RStrip(s) == RStripChars(s, Whitespace)

\* str.strip()
Strip(s) == RStrip(LStrip(s))

\* str.startswith
StartsWith(s, p) == Len(s) >= Len(p) /\ SubSeq(s, 1, Len(p)) = p

\* str.splitlines(): the lines from position st on
RECURSIVE SplitLinesFrom(_, _)
SplitLinesFrom(s, st) ==
    IF st > Len(s) THEN <<>>
    ELSE LET br == FirstIn(s, st, LineBreaks) IN
         IF br = 0 THEN <<SubSeq(s, st, Len(s))>>
         ELSE <<SubSeq(s, st, br - 1)>> \o SplitLinesFrom(s, br + 1)

SplitLines(s) == SplitLinesFrom(s, 1)

\* sep.join(parts)
RECURSIVE Join(_, _)
Join(parts, sep) ==
    IF Len(parts) = 0 THEN ""
    ELSE IF Len(parts) = 1 THEN parts[1]
    ELSE LET half == Len(parts) \div 2 IN
         Join(SubSeq(parts, 1, half), sep) \o sep \o Join(SubSeq(parts, half + 1, Len(parts)), sep)

-----------------------------------------------------------------------------
(* json.loads on texts over  { } [ ] " : , 1 null, letters and whitespace.  *)
(* A value is [t |-> "obj" | "arr" | "str" | "num" | "null", v |-> ...]; an  *)
(* object's v is the function from its keys to its values (a later          *)
(* duplicate key wins, as in a dict).                                       *)

JsonWs == {" ", "\n"}

\* the first position from i on that holds no whitespace
SkipWs(s, i) ==
    IF FirstNotIn(s, i, JsonWs) # 0 THEN FirstNotIn(s, i, JsonWs)
    ELSE IF i > Len(s) THEN i ELSE Len(s) + 1

JFail == [ok |-> FALSE, val |-> [t |-> "err", v |-> 0], next |-> 0]

JOk(val, next) == [ok |-> TRUE, val |-> val, next |-> next]

EmptyDict == [k \in {} |-> 0]

\* a dict that holds the new key alone
DictPut_fresh(dict, key, val) == [k \in {key} |-> val]

\* dict[key] = val, on a copy
DictPut(dict, key, val) ==
    [k \in (DOMAIN dict) \cup {key} |-> IF k = key THEN val ELSE dict[k]]

\* the closing quote of the string opened before i; 0 when the string does not
\* end or holds a control character
ScanStringEnd(s, i) ==
    LET stop == FirstIn(s, i, {"\"", "\n"}) IN
    IF stop # 0 /\ Char(s, stop) = "\"" THEN stop ELSE 0

\* the first position from i on that holds no digit
ScanDigits(s, i) == IF FirstNotIn(s, i, {"1"}) = 0 THEN Len(s) + 1 ELSE FirstNotIn(s, i, {"1"})

RECURSIVE OnesValue(_)
OnesValue(n) == IF n = 0 THEN 0 ELSE 10 * OnesValue(n - 1) + 1

RECURSIVE ParseValue(_, _)
RECURSIVE ParseMembers(_, _, _)
RECURSIVE ParseElements(_, _, _)

\* the value that starts at position i
ParseValue(s, i) ==
    LET c == Char(s, i) IN
    IF c = "\""
    THEN LET e == ScanStringEnd(s, i + 1) IN
         IF e = 0 THEN JFail ELSE JOk([t |-> "str", v |-> SubSeq(s, i + 1, e - 1)], e + 1)
    ELSE IF c = "{"
    THEN LET j == SkipWs(s, i + 1) IN
         IF Char(s, j) = "}" THEN JOk([t |-> "obj", v |-> EmptyDict], j + 1)
         ELSE ParseMembers(s, j, EmptyDict)
    ELSE IF c = "["
    THEN LET j == SkipWs(s, i + 1) IN
         IF Char(s, j) = "]" THEN JOk([t |-> "arr", v |-> <<>>], j + 1)
         ELSE ParseElements(s, j, <<>>)
    ELSE IF c = "1"
    THEN LET e == ScanDigits(s, i) IN JOk([t |-> "num", v |-> OnesValue(e - i)], e)
    ELSE IF i + 3 <= Len(s) /\ SubSeq(s, i, i + 3) = "null"
    THEN JOk([t |-> "null", v |-> 0], i + 4)
    ELSE JFail

\* the members of an object from the key expected at position i
ParseMembers(s, i, acc) ==
    IF Char(s, i) # "\"" THEN JFail
    ELSE LET e == ScanStringEnd(s, i + 1) IN
         IF e = 0 THEN JFail
         ELSE LET colon == SkipWs(s, e + 1) IN
              IF Char(s, colon) # ":" THEN JFail
              ELSE LET val == ParseValue(s, SkipWs(s, colon + 1)) IN
                   IF ~val.ok THEN JFail
                   ELSE LET m == SkipWs(s, val.next)
                            dict == DictPut(acc, SubSeq(s, i + 1, e - 1), val.val)
                        IN IF Char(s, m) = "}" THEN JOk([t |-> "obj", v |-> dict], m + 1)
                           ELSE IF Char(s, m) = ","
                                THEN ParseMembers(s, SkipWs(s, m + 1), dict)
                                ELSE JFail

\* the elements of an array from the value expected at position i
ParseElements(s, i, acc) ==
    LET val == ParseValue(s, i) IN
    IF ~val.ok THEN JFail
    ELSE LET m == SkipWs(s, val.next)
             arr == Append(acc, val.val)
         IN IF Char(s, m) = "]" THEN JOk([t |-> "arr", v |-> arr], m + 1)
            ELSE IF Char(s, m) = "," THEN ParseElements(s, SkipWs(s, m + 1), arr)
            ELSE JFail

\* json.loads(text): one value with only whitespace around it
JsonLoads(text) ==
    LET val == ParseValue(text, SkipWs(text, 1)) IN
    IF val.ok /\ SkipWs(text, val.next) = Len(text) + 1 THEN val ELSE JFail

-----------------------------------------------------------------------------
(* Response Normalizer: parse_json_from_llm *)

ValueError == [ok |-> FALSE, val |-> [t |-> "err", v |-> 0]]

Returned(val) == [ok |-> TRUE, val |-> val]

\* lines 57-58: while lines and not lines[-1].strip(): lines.pop()
RECURSIVE DropTrailingBlank(_)
DropTrailingBlank(lines) ==
    IF Len(lines) > 0 /\ Strip(lines[Len(lines)]) = ""
    THEN DropTrailingBlank(SubSeq(lines, 1, Len(lines) - 1))
    ELSE lines

\* lines 59-60: drop a closing fence line
DropClosingFence(lines) ==
    IF Len(lines) > 0 /\ StartsWith(Strip(lines[Len(lines)]), Fence)
    THEN SubSeq(lines, 1, Len(lines) - 1)
    ELSE lines

\* lines 63-66
LoadsOrRaise(text) ==
    LET val == JsonLoads(text) IN IF val.ok THEN Returned(val.val) ELSE ValueError

ParseJsonFromLlm(raw) ==
    LET text == Strip(raw) IN
    IF Len(text) = 0 THEN ValueError
    ELSE IF StartsWith(text, Fence)
    THEN LET lines == Tail(SplitLines(text)) IN
         IF Len(lines) = 0 THEN ValueError
         ELSE LoadsOrRaise(Strip(Join(DropClosingFence(DropTrailingBlank(lines)), "\n")))
    ELSE LoadsOrRaise(text)

\* the pieces payload texts are put together from
PayloadPieces == {"{\"a\":", "1", "}", "\"b~c\"", "{}", "[1]", "null", "\n"}

RECURSIVE PieceTexts(_)
PieceTexts(n) ==
    IF n = 0 THEN {""}
    ELSE LET shorter == PieceTexts(n - 1) IN
         shorter \cup {t \o p : t \in shorter, p \in PayloadPieces}

Payloads == PieceTexts(MaxPayloadPieces)

\* an opening fence line, with a language tag or indented
FencedOpens == {Fence \o "\n", Fence \o "json\n", " " \o Fence \o "\n"}

\* a closing fence line, after blank lines, indented, with blank lines after it
FencedCloses == {"\n" \o Fence, "\n\n" \o Fence \o "\n", "\n " \o Fence \o " "}

NotRun == [ok |-> FALSE, val |-> [t |-> "none", v |-> 0]]

Ran(out) == out.val.t # "none"

NormIdle ==
    /\ nin = [open |-> "", payload |-> "", close |-> ""]
    /\ nout = NotRun
    /\ nbare = NotRun

InitNorm ==
    /\ nin \in [open : FencedOpens \cup {"", Fence}, payload : Payloads,
                close : FencedCloses \cup {"", Fence}]
    /\ nout = NotRun
    /\ nbare = NotRun

\* parse_json_from_llm on the whole text
NormalizeRaw ==
    /\ ~Ran(nout)
    /\ nout' = ParseJsonFromLlm(nin.open \o nin.payload \o nin.close)
    /\ UNCHANGED <<nin, nbare, nonNormVars>>

\* parse_json_from_llm on the payload alone
NormalizeBare ==
    /\ ~Ran(nbare)
    /\ nbare' = ParseJsonFromLlm(nin.payload)
    /\ UNCHANGED <<nin, nout, nonNormVars>>

NextNorm == NormalizeRaw \/ NormalizeBare

-----------------------------------------------------------------------------
(* Text: the further str operations the Extraction Engine uses.             *)
(* Bullet stands for U+2022 BULLET, which a string of the module cannot     *)
(* hold.                                                                    *)

Bullet == "@"

BulletMarks == {"-", Bullet, "*"}

UpperLetters == "ABCDEFGHIJKLMNOPQRSTUVWXYZ"

LowerLetters == "abcdefghijklmnopqrstuvwxyz"

Digits == {"0", "1", "2", "3", "4", "5", "6", "7", "8", "9"}

\* the position of character c in s, 0 when it is not there
IndexOf(c, s, i) == FirstIn(s, i, {c})

\* str.lower()
RECURSIVE Lower(_)
Lower(s) ==
    IF Len(s) = 0 THEN ""
    ELSE IF Len(s) = 1
    THEN LET u == IndexOf(s, UpperLetters, 1) IN IF u = 0 THEN s ELSE Char(LowerLetters, u)
    ELSE Lower(SubSeq(s, 1, Len(s) \div 2)) \o Lower(SubSeq(s, Len(s) \div 2 + 1, Len(s)))

\* str.find(sub) from position i on, counted from 1; 0 stands for -1
Find(s, sub, i) ==
    LET At(j) == SubSeq(s, j, j + Len(sub) - 1) = sub
        last == Len(s) - Len(sub) + 1
    IN IF \E j \in i..last : At(j)
       THEN CHOOSE j \in i..last : At(j) /\ \A k \in i..(j - 1) : ~At(k)
       ELSE 0

\* sub in s
Contains(s, sub) == Find(s, sub, 1) # 0

\* str.split(sep)
RECURSIVE Split(_, _)
Split(s, sep) ==
    LET i == Find(s, sep, 1) IN
    IF i = 0 THEN <<s>>
    ELSE <<SubSeq(s, 1, i - 1)>> \o Split(SubSeq(s, i + Len(sep), Len(s)), sep)

\* str.split(sep, 1)
SplitOnce(s, sep) ==
    LET i == Find(s, sep, 1) IN
    IF i = 0 THEN <<s>>
    ELSE <<SubSeq(s, 1, i - 1), SubSeq(s, i + Len(sep), Len(s))>>

\* str.replace(a, b) for a single character a
RECURSIVE Replace(_, _, _)
Replace(s, a, b) ==
    IF Len(s) = 0 THEN ""
    ELSE IF Len(s) = 1 THEN (IF s = a THEN b ELSE s)
    ELSE Replace(SubSeq(s, 1, Len(s) \div 2), a, b)
         \o Replace(SubSeq(s, Len(s) \div 2 + 1, Len(s)), a, b)

\* line.startswith(("-", bullet, "*"))
StartsWithBullet(s) == Char(s, 1) \in BulletMarks

\* [part.strip() for part in parts if part.strip()]
StrippedNonBlank(parts) ==
    SelectSeq([i \in 1..Len(parts) |-> Strip(parts[i])], LAMBDA p : p # "")

\* seq[:n]
FirstN(seq, n) == SubSeq(seq, 1, IF Len(seq) < n THEN Len(seq) ELSE n)

\* Optional[str]: None and a string
PyNone == [t |-> "null", v |-> 0]

PyStr(s) == [t |-> "str", v |-> s]

-----------------------------------------------------------------------------
(* Document extraction: extract_text_from_pdf.  A PDF is [kind, text]: the   *)
(* empty byte string, bytes pypdf cannot read, or a document whose pages     *)
(* pypdf turns into text.                                                    *)

\* lines 44-53: keep one blank line of every run of blank lines
RECURSIVE CollapseBlank(_, _, _)
CollapseBlank(lines, i, blank_streak) ==
    IF i > Len(lines) THEN <<>>
    ELSE IF lines[i] = ""
    THEN (IF blank_streak + 1 <= 1 THEN <<"">> ELSE <<>>)
         \o CollapseBlank(lines, i + 1, blank_streak + 1)
    ELSE <<lines[i]>> \o CollapseBlank(lines, i + 1, 0)

ExtractTextFromPdf(pdf) ==
    IF pdf.kind # "pdf" THEN ""
    ELSE LET raw == SplitLines(pdf.text)
             cleaned_lines == [i \in 1..Len(raw) |-> Strip(raw[i])]
         IN Strip(Join(CollapseBlank(cleaned_lines, 1, 0), "\n"))

-----------------------------------------------------------------------------
(* Extraction Engine: the resume                                            *)

ExtractCvSummary(cv_text) ==
    LET paragraphs == StrippedNonBlank(Split(cv_text, "\n\n")) IN
    IF Len(paragraphs) > 0 THEN PyStr(paragraphs[1]) ELSE PyNone

SkillMarkers == <<"technical skills", "skills", "tech stack", "technologies">>

\* lines 174-178: the position of the first marker of the list that occurs
RECURSIVE MarkerIndex(_, _)
MarkerIndex(normalized, k) ==
    IF k > Len(SkillMarkers) THEN 0
    ELSE LET i == Find(normalized, SkillMarkers[k], 1) IN
         IF i # 0 THEN i ELSE MarkerIndex(normalized, k + 1)

\* a deduplication that compares the skills as written
RECURSIVE DedupKeepOrder_caseSensitive(_, _, _)
DedupKeepOrder_caseSensitive(skills, seen, ordered) ==
    IF Len(skills) = 0 THEN ordered
    ELSE IF Head(skills) \in seen
         THEN DedupKeepOrder_caseSensitive(Tail(skills), seen, ordered)
         ELSE DedupKeepOrder_caseSensitive(Tail(skills), seen \cup {Head(skills)},
                                           Append(ordered, Head(skills)))

\* lines 187-195: deduplicate while keeping order
RECURSIVE DedupKeepOrder(_, _, _)
DedupKeepOrder(skills, seen, ordered) ==
    IF Len(skills) = 0 THEN ordered
    ELSE LET lower == Lower(Head(skills)) IN
         IF lower \in seen THEN DedupKeepOrder(Tail(skills), seen, ordered)
         ELSE DedupKeepOrder(Tail(skills), seen \cup {lower}, Append(ordered, Head(skills)))

ExtractCvSkills(cv_text) ==
    LET marker_index == MarkerIndex(Lower(cv_text), 1) IN
    IF marker_index = 0 THEN <<>>
    ELSE LET block == Split(SubSeq(cv_text, marker_index, Len(cv_text)), "\n\n")[1]
             parts == SplitOnce(block, ":")
             section == parts[Len(parts)]
             pieces == Split(Replace(section, "\n", ","), ",")
             tokens == [i \in 1..Len(pieces) |->
                           StripChars(pieces[i], {Bullet, "-", "*", " ", "\n"})]
             skills == SelectSeq(tokens, LAMBDA token : Len(token) > 1)
         IN DedupKeepOrder(skills, {}, <<>>)

LooksLikeExperience(block) ==
    LET lowered == Lower(block) IN
    \/ Contains(lowered, "experience") \/ Contains(lowered, "responsibilities")
    \/ \E i \in 1..Len(block) : Char(block, i) \in Digits
    \/ StartsWithBullet(LStrip(block))

\* lines 204-213: the entry of one block
ExperienceEntry(block) ==
    LET lines == StrippedNonBlank(SplitLines(block))
        rest == SelectSeq(Tail(lines), StartsWithBullet)
    IN [role |-> IF Len(lines) > 0 THEN PyStr(lines[1]) ELSE PyNone,
        bullets |-> [i \in 1..Len(rest) |->
                        Strip(LStripChars(rest[i], {Bullet, "-", "*", " "}))],
        raw_text |-> PyStr(block)]

ExtractCvExperience(cv_text) ==
    LET blocks == SelectSeq(StrippedNonBlank(Split(cv_text, "\n\n")), LooksLikeExperience)
    IN [i \in 1..Len(blocks) |-> ExperienceEntry(blocks[i])]

-----------------------------------------------------------------------------
(* Extraction Engine: the job posting                                        *)

\* lines 252-267: the loop over the lines from line i on
RECURSIVE SectionScan(_, _, _, _, _)
SectionScan(lines, i, header_markers, collecting, collected) ==
    IF i > Len(lines) THEN collected
    ELSE LET stripped == Strip(lines[i])
             lowered == Lower(stripped)
         IN IF stripped = ""
            THEN IF collecting /\ collected # <<>> THEN collected
                 ELSE SectionScan(lines, i + 1, header_markers, collecting, collected)
            ELSE IF \E header \in header_markers : Contains(lowered, header)
            THEN SectionScan(lines, i + 1, header_markers, TRUE, <<>>)
            ELSE IF collecting
            THEN SectionScan(lines, i + 1, header_markers, TRUE,
                     Append(collected,
                            IF StartsWithBullet(stripped)
                            THEN LStripChars(stripped, {"-", Bullet, "*", " "})
                            ELSE stripped))
            ELSE SectionScan(lines, i + 1, header_markers, collecting, collected)

ExtractSectionLines(text, headers) ==
    SectionScan(SplitLines(text), 1, {Lower(h) : h \in headers}, FALSE, <<>>)

FallbackBullets(lines) ==
    LET marked == SelectSeq(lines, StartsWithBullet) IN
    FirstN([i \in 1..Len(marked) |-> LStripChars(marked[i], {"-", Bullet, "*", " "})], 8)

\* lines 278-281: the keywords of the lines from line i on
RECURSIVE KeywordsFrom(_, _)
KeywordsFrom(lines, i) ==
    IF i > Len(lines) THEN <<>>
    ELSE (IF Contains(lines[i], ":")
          THEN StrippedNonBlank(Split(SplitOnce(lines[i], ":")[2], ","))
          ELSE <<>>) \o KeywordsFrom(lines, i + 1)

FallbackKeywords(lines) == FirstN(KeywordsFrom(FirstN(lines, 20), 1), 10)

ParseJobDescription(text) ==
    LET lines == StrippedNonBlank(SplitLines(text))
        responsibilities == ExtractSectionLines(text, {"responsibilities", "what you'll do"})
        required_skills == ExtractSectionLines(text, {"requirements", "required", "must have"})
    IN [role_title |-> IF Len(lines) > 0 THEN PyStr(lines[1]) ELSE PyNone,
        responsibilities |-> IF responsibilities = <<>> THEN FallbackBullets(lines)
                             ELSE responsibilities,
        required_skills |-> IF required_skills = <<>> THEN FallbackKeywords(lines)
                            ELSE required_skills,
        nice_to_have_skills |-> ExtractSectionLines(text, {"nice to have", "preferred", "bonus"}),
        raw_text |-> text]

StructuredCV(cv_text) ==
    [summary |-> ExtractCvSummary(cv_text),
     skills |-> ExtractCvSkills(cv_text),
     experience |-> ExtractCvExperience(cv_text),
     raw_text |-> cv_text]

-----------------------------------------------------------------------------
(* Heuristic analysis: _detect_missing_keywords and _estimate_match_level.  *)
(* coverage = 1 - missing/required is kept as the fraction                   *)
(* (required - missing)/required and compared exactly; the double           *)
(* arithmetic of lines 294-297 gives the same answers for every list below  *)
(* 400 entries.                                                             *)

\* the comparison without str.lower()
DetectMissingKeywords_caseSensitive(cv_skills, required_skills) ==
    SelectSeq(required_skills,
              LAMBDA skill : \A i \in 1..Len(cv_skills) : cv_skills[i] # skill)
DetectMissingKeywords(cv_skills, required_skills) ==
    LET cv_skill_set == {Lower(cv_skills[i]) : i \in 1..Len(cv_skills)} IN
    SelectSeq(required_skills, LAMBDA skill : Lower(skill) \notin cv_skill_set)

Coverage(required, missing) == [num |-> required - missing, den |-> required]

\* coverage > a/b
AtLeast_strict(coverage, a, b) == coverage.num * b > a * coverage.den
\* coverage >= a/b
AtLeast(coverage, a, b) == coverage.num * b >= a * coverage.den

EstimateMatchLevel(required_skills, missing_skills) ==
    IF Len(required_skills) = 0 THEN "Unknown"
    ELSE LET coverage == Coverage(Len(required_skills), Len(missing_skills)) IN
         IF AtLeast(coverage, 3, 4) THEN "High"
         ELSE IF AtLeast(coverage, 2, 5) THEN "Medium"
         ELSE "Low"

\* the skills the heuristics are run on
CvSkillNames == {"Go", "go", "SQL"}

RequiredSkillNames == {"Go", "sql", "K8s"}

SeqsUpTo(S, n) == UNION {[1..k -> S] : k \in 0..n}

\* _extract_cv_skills returns no two skills equal under lower()
Deduplicated(skills) ==
    \A i, j \in 1..Len(skills) : Lower(skills[i]) = Lower(skills[j]) => i = j

HeurIdle ==
    /\ hin = [cv_skills |-> <<>>, required_skills |-> <<>>]
    /\ hout = [pc |-> "idle", missing |-> <<>>, level |-> ""]

InitHeur ==
    /\ hin \in [cv_skills : {s \in SeqsUpTo(CvSkillNames, MaxCvSkills) : Deduplicated(s)},
                required_skills : SeqsUpTo(RequiredSkillNames, MaxRequiredSkills)]
    /\ hout = [pc |-> "start", missing |-> <<>>, level |-> ""]

\* run_analysis_agent, lines 101-103
DetectMissing ==
    /\ hout.pc = "start"
    /\ hout' = [hout EXCEPT !.pc = "detected",
                   !.missing = DetectMissingKeywords(hin.cv_skills, hin.required_skills)]
    /\ UNCHANGED <<hin, nonHeurVars>>

\* lines 111-113 and 448
EstimateLevel ==
    /\ hout.pc = "detected"
    /\ hout' = [hout EXCEPT !.pc = "estimated",
                   !.level = EstimateMatchLevel(hin.required_skills, hout.missing)]
    /\ UNCHANGED <<hin, nonHeurVars>>

NextHeur == DetectMissing \/ EstimateLevel

-----------------------------------------------------------------------------
(* Extraction Engine run on résumé skill sections and posting sections      *)

\* stands for U+00DF LATIN SMALL LETTER SHARP S, which str.lower() leaves as
\* it is and str.casefold() turns into "ss"
SharpS == "$"

\* str.casefold(), for the letters of the model
CaseFold(s) == Replace(Lower(s), SharpS, "ss")

\* the tokens of a résumé's skills section
SkillTokens == {"Go", "go", " GO", "SQL", "-sql", "x", "MASS", "Ma" \o SharpS}

\* the lines below a posting's header line
SectionItems == {"- Python", "* Go ", "", "Docker required", "Kubernetes"}

\* the résumé text of a skills input
CvText(input) ==
    input.header \o Join(input.items, input.sep) \o "\n\nExperience\n- ran ops"

\* the posting text of a section input
JdText(input) == Join(<<"Backend Engineer", input.header>> \o input.items, input.sep)

ExtIdle ==
    /\ xin = [kind |-> "none", header |-> "", items |-> <<>>, sep |-> ""]
    /\ xout = [pc |-> "idle", lines |-> <<>>]

InitExt ==
    /\ xin \in [kind : {"cv"}, header : {"Skills: ", "Profile\n\nTECH STACK:\n"},
                items : SeqsUpTo(SkillTokens, MaxSkillTokens), sep : {", ", "\n"}]
               \cup [kind : {"jd"}, header : {"Requirements:"},
                     items : SeqsUpTo(SectionItems, MaxSectionItems), sep : {"\n"}]
    /\ xout = [pc |-> "start", lines |-> <<>>]

\* run_parsing_agent, line 78
ExtractSkills ==
    /\ xout.pc = "start" /\ xin.kind = "cv"
    /\ xout' = [pc |-> "skills", lines |-> ExtractCvSkills(CvText(xin))]
    /\ UNCHANGED <<xin, nonExtVars>>

\* _parse_job_description, line 230
ScanSection ==
    /\ xout.pc = "start" /\ xin.kind = "jd"
    /\ xout' = [pc |-> "section",
                lines |-> ExtractSectionLines(JdText(xin),
                                              {"requirements", "required", "must have"})]
    /\ UNCHANGED <<xin, nonExtVars>>

NextExt == ExtractSkills \/ ScanSection

-----------------------------------------------------------------------------
(* Values of the reasoning service's payload are the JSON values above; a   *)
(* model field of type Optional[str] holds PyNone or PyStr(s), one of type  *)
(* List[str] a sequence of strings.                                         *)

\* bool(val)
Truthy(val) ==
    CASE val.t = "null" -> FALSE
      [] val.t = "str" -> val.v # ""
      [] val.t = "num" -> val.v # 0
      [] val.t = "arr" -> Len(val.v) > 0
      [] val.t = "obj" -> DOMAIN val.v # {}

\* payload.get(key, default)
Get(payload, key, default) == IF key \in DOMAIN payload.v THEN payload.v[key] ELSE default

\* payload.get(key) or default
GetOr(payload, key, default) ==
    IF Truthy(Get(payload, key, PyNone)) THEN Get(payload, key, PyNone) ELSE default

\* a list of strings as a payload value
PyList(strings) == [t |-> "arr", v |-> [i \in 1..Len(strings) |-> PyStr(strings[i])]]

\* pydantic accepts the value for a field of type Optional[str]
IsOptStr(val) == val.t \in {"str", "null"}

\* pydantic accepts the value for a field of type List[str]
IsStrList(val) == val.t = "arr" /\ \A i \in 1..Len(val.v) : val.v[i].t = "str"

Raised(exc) == [ok |-> FALSE, val |-> [t |-> "err", v |-> exc]]

\* what the reasoning service does with a prompt: it raises, or answers raw
LlmRaises == [raised |-> TRUE, raw |-> ""]

LlmAnswers(texts) == {[raised |-> FALSE, raw |-> text] : text \in texts}

\* the value _generate_analysis_summary returns (None is PyNone)
GenerateAnalysisSummary(reply) ==
    IF reply.raised THEN PyNone
    ELSE LET parsed == ParseJsonFromLlm(reply.raw) IN
         IF parsed.ok THEN parsed.val ELSE PyNone

BuildHeuristicReport(structured_cv, parsed_jd, missing_keywords) ==
    LET has_summary == Truthy(structured_cv.summary)
        has_skills == structured_cv.skills # <<>>
        has_experience == structured_cv.experience # <<>>
        strengths ==
            (IF has_summary THEN <<"Summary present">> ELSE <<>>)
            \o (IF has_skills THEN <<"Skills detected">> ELSE <<>>)
            \o (IF has_experience THEN <<"Experience entries detected">> ELSE <<>>)
        issues ==
            (IF has_summary THEN <<>> ELSE <<"Summary section missing or empty.">>)
            \o (IF has_skills THEN <<>> ELSE <<"Skills section missing.">>)
            \o (IF has_experience THEN <<>> ELSE <<"Could not identify experience bullets.">>)
            \o (IF missing_keywords # <<>>
                THEN <<"Some required skills are not reflected in the CV.">> ELSE <<>>)
    IN [match_level |-> PyStr(EstimateMatchLevel(parsed_jd.required_skills, missing_keywords)),
        ats_readiness |-> PyStr(IF issues = <<>> THEN "Basic" ELSE "Needs work"),
        missing_keywords |-> missing_keywords,
        strengths |-> strengths,
        issues |-> issues,
        improvement_opportunities |-> <<"Tailor skills to highlight JD keywords.",
                                        "Add ATS-friendly headings and bullet points.">>]

\* AnalysisReport(**fields): the validated report, or ValidationError
ValidAnalysisReport(fields) ==
    IF /\ IsOptStr(fields.match_level) /\ IsOptStr(fields.ats_readiness)
       /\ IsStrList(fields.missing_keywords) /\ IsStrList(fields.strengths)
       /\ IsStrList(fields.issues) /\ IsStrList(fields.improvement_opportunities)
    THEN Returned([match_level |-> fields.match_level,
                   ats_readiness |-> fields.ats_readiness,
                   missing_keywords |-> [i \in 1..Len(fields.missing_keywords.v) |->
                                            fields.missing_keywords.v[i].v],
                   strengths |-> [i \in 1..Len(fields.strengths.v) |-> fields.strengths.v[i].v],
                   issues |-> [i \in 1..Len(fields.issues.v) |-> fields.issues.v[i].v],
                   improvement_opportunities |->
                       [i \in 1..Len(fields.improvement_opportunities.v) |->
                           fields.improvement_opportunities.v[i].v]])
    ELSE Raised("ValidationError")

\* the whole heuristic report as soon as the payload lacks one field
AnalysisReport_allOrNothing(structured_cv, parsed_jd, llm_payload) ==
    LET heuristic == BuildHeuristicReport(structured_cv, parsed_jd,
                         DetectMissingKeywords(structured_cv.skills, parsed_jd.required_skills))
        keys == {"match_level", "ats_readiness", "missing_keywords", "strengths", "issues",
                 "improvement_opportunities"}
    IN IF llm_payload.t = "null" THEN Returned(heuristic)
       ELSE IF llm_payload.t # "obj" THEN Raised("AttributeError")
       ELSE IF ~(keys \subseteq DOMAIN llm_payload.v) THEN Returned(heuristic)
       ELSE ValidAnalysisReport([k \in keys |-> llm_payload.v[k]])
\* run_analysis_agent, lines 101-119: the report, or the exception raised
AnalysisReport(structured_cv, parsed_jd, llm_payload) ==
    LET heuristic_missing ==
            DetectMissingKeywords(structured_cv.skills, parsed_jd.required_skills)
    IN IF llm_payload.t = "null"
       THEN Returned(BuildHeuristicReport(structured_cv, parsed_jd, heuristic_missing))
       ELSE IF llm_payload.t # "obj" THEN Raised("AttributeError")
       ELSE ValidAnalysisReport(
                [match_level |-> GetOr(llm_payload, "match_level",
                     PyStr(EstimateMatchLevel(parsed_jd.required_skills, heuristic_missing))),
                 ats_readiness |-> GetOr(llm_payload, "ats_readiness", PyStr("Unknown")),
                 missing_keywords |-> GetOr(llm_payload, "missing_keywords",
                                            PyList(heuristic_missing)),
                 strengths |-> Get(llm_payload, "strengths", PyList(<<>>)),
                 issues |-> Get(llm_payload, "issues", PyList(<<>>)),
                 improvement_opportunities |->
                     Get(llm_payload, "improvement_opportunities", PyList(<<>>))])

-----------------------------------------------------------------------------
(* Rewriting stage: the sections and the rendered report                     *)

\* a gateway that answers an empty payload where the text is malformed
GenerateRewrites_emptyOnMalformed(reply) ==
    IF reply.raised THEN PyNone
    ELSE LET parsed == ParseJsonFromLlm(reply.raw) IN
         IF parsed.ok THEN parsed.val ELSE [t |-> "obj", v |-> EmptyDict]

\* the value _generate_rewrites returns (None is PyNone)
GenerateRewrites(reply) ==
    IF reply.raised THEN PyNone
    ELSE LET parsed == ParseJsonFromLlm(reply.raw) IN
         IF parsed.ok THEN parsed.val ELSE PyNone

\* pass-through sections that keep every experience entry
PassThroughSections_untruncated(structured_cv) ==
    LET skills == Join(structured_cv.skills, ", ")
        entries == structured_cv.experience
    IN [summary_before |-> structured_cv.summary,
        summary_after |-> structured_cv.summary,
        summary_explanation |-> PyStr("Rewriting unavailable."),
        skills_before |-> IF skills = "" THEN PyNone ELSE PyStr(skills),
        skills_after |-> IF skills = "" THEN PyNone ELSE PyStr(skills),
        skills_explanation |-> PyStr("Rewriting unavailable."),
        experience_items |-> [i \in 1..Len(entries) |->
                                 [before |-> entries[i].raw_text,
                                  after |-> entries[i].raw_text,
                                  explanation |-> PyNone]],
        final_markdown |-> PyNone]

\* lines 138-149: pass-through sections
PassThroughSections(structured_cv) ==
    LET skills == Join(structured_cv.skills, ", ")
        entries == FirstN(structured_cv.experience, 3)
    IN [summary_before |-> structured_cv.summary,
        summary_after |-> structured_cv.summary,
        summary_explanation |-> PyStr("Rewriting unavailable."),
        skills_before |-> IF skills = "" THEN PyNone ELSE PyStr(skills),
        skills_after |-> IF skills = "" THEN PyNone ELSE PyStr(skills),
        skills_explanation |-> PyStr("Rewriting unavailable."),
        experience_items |-> [i \in 1..Len(entries) |->
                                 [before |-> entries[i].raw_text,
                                  after |-> entries[i].raw_text,
                                  explanation |-> PyNone]],
        final_markdown |-> PyNone]

\* a block whose before, after and explanation pydantic accepts
ValidBlock(block) ==
    /\ IsOptStr(Get(block, "before", PyNone))
    /\ IsOptStr(Get(block, "after", PyNone))
    /\ IsOptStr(Get(block, "explanation", PyNone))

\* _payload_to_rewrites: the sections, or the exception raised
PayloadToRewrites(payload) ==
    IF payload.t # "obj" THEN Raised("AttributeError")
    ELSE LET summary_block == GetOr(payload, "summary", [t |-> "obj", v |-> EmptyDict])
             skills_block == GetOr(payload, "skills", [t |-> "obj", v |-> EmptyDict])
             experience_blocks == GetOr(payload, "experience", [t |-> "arr", v |-> <<>>])
             blocks == experience_blocks.v
             bad == {i \in 1..Len(blocks) : blocks[i].t # "obj" \/ ~ValidBlock(blocks[i])}
         IN IF experience_blocks.t = "num" THEN Raised("TypeError")
            ELSE IF experience_blocks.t # "arr" THEN Raised("AttributeError")
            ELSE IF bad # {}
            THEN LET first == CHOOSE i \in bad : \A j \in bad : i <= j IN
                 IF blocks[first].t # "obj" THEN Raised("AttributeError")
                 ELSE Raised("ValidationError")
            ELSE IF summary_block.t # "obj" \/ skills_block.t # "obj"
            THEN Raised("AttributeError")
            ELSE IF ~ValidBlock(summary_block) \/ ~ValidBlock(skills_block)
            THEN Raised("ValidationError")
            ELSE Returned(
                [summary_before |-> Get(summary_block, "before", PyNone),
                 summary_after |-> Get(summary_block, "after", PyNone),
                 summary_explanation |-> Get(summary_block, "explanation", PyNone),
                 skills_before |-> Get(skills_block, "before", PyNone),
                 skills_after |-> Get(skills_block, "after", PyNone),
                 skills_explanation |-> Get(skills_block, "explanation", PyNone),
                 experience_items |-> [i \in 1..Len(blocks) |->
                                          [before |-> Get(blocks[i], "before", PyNone),
                                           after |-> Get(blocks[i], "after", PyNone),
                                           explanation |-> Get(blocks[i], "explanation", PyNone)]],
                 final_markdown |-> PyNone])

\* lines 326-335 and 345-354: the lines of one before/after pair
PairLines(before, after, explanation) ==
    (IF Truthy(before) THEN <<"**Before**", Strip(before.v)>> ELSE <<>>)
    \o (IF Truthy(after) THEN <<"", "**After**", Strip(after.v)>> ELSE <<>>)
    \o (IF Truthy(explanation) THEN <<"", "_Why:_ " \o Strip(explanation.v)>> ELSE <<>>)

\* _section, lines 321-335
SectionLines(before, after, explanation, title) ==
    IF ~(Truthy(before) \/ Truthy(after)) THEN <<>>
    ELSE <<"", "### " \o title>> \o PairLines(before, after, explanation)

\* lines 343-355: the lines of the experience items from item idx on
RECURSIVE RoleLines(_, _)
RoleLines(items, idx) ==
    IF idx > Len(items) THEN <<>>
    ELSE <<"#### Role " \o ToString(idx)>>
         \o PairLines(items[idx].before, items[idx].after, items[idx].explanation)
         \o <<"">> \o RoleLines(items, idx + 1)

BuildMarkdownReport(analysis, rewrites) ==
    LET Labelled(label, items, sep) ==
            IF items # <<>> THEN <<label \o Join(items, sep)>> ELSE <<>>
        tips == analysis.improvement_opportunities
        lines ==
            <<"## CV Optimization Assistant",
              "### Overall Match & ATS Readiness",
              "- Match level: " \o (IF Truthy(analysis.match_level)
                                    THEN analysis.match_level.v ELSE "Unknown"),
              "- ATS readiness: " \o (IF Truthy(analysis.ats_readiness)
                                      THEN analysis.ats_readiness.v ELSE "Unknown")>>
            \o Labelled("- Missing keywords: ", analysis.missing_keywords, ", ")
            \o Labelled("- Strengths: ", analysis.strengths, "; ")
            \o Labelled("- Issues: ", analysis.issues, "; ")
            \o (IF tips # <<>>
                THEN <<"", "**Improvement opportunities**">>
                     \o [i \in 1..Len(tips) |-> "- " \o tips[i]]
                ELSE <<>>)
            \o SectionLines(rewrites.summary_before, rewrites.summary_after,
                            rewrites.summary_explanation, "Summary")
            \o SectionLines(rewrites.skills_before, rewrites.skills_after,
                            rewrites.skills_explanation, "Skills")
            \o (IF rewrites.experience_items # <<>>
                THEN <<"", "### Experience">> \o RoleLines(rewrites.experience_items, 1)
                ELSE <<>>)
            \o <<"_Generated by the CV Optimization Assistant._">>
    IN Join(lines, "\n")

-----------------------------------------------------------------------------
(* The pipeline of app/graph.py: parsing -> analysis -> rewriting -> END.    *)
(* A node runs without interleaving with the other nodes of its run, so     *)
(* each node is one action; state is the dict the nodes hand on.            *)

\* the uploaded documents
CvPdfs ==
    {[kind |-> "empty", text |-> ""],
     [kind |-> "corrupt", text |-> ""],
     [kind |-> "pdf",
      text |-> "Jane Doe\n\nSkills: Python, Go, SQL\n\nSenior Engineer\n- Built pipelines\n- Led team"],
     [kind |-> "pdf",
      text |-> " Dev 2019 \n\n\n\nTECH STACK: go, Go\n@ sql\n\n- ran ops\n\n* led team\n\nExperience\n"]}

\* the pasted postings
JobTexts ==
    {"",
     "Backend Engineer\nRequirements:\n- Python\n- Kubernetes",
     "Engineer\nMust have\n- python\n* go\n\nBonus:\n- k8s",
     "Role: Dev, Ops"}

\* the fields an analysis answer is put together from
AnalysisFields ==
    <<"\"match_level\":\"Low\"",
      "\"ats_readiness\":\"Good\"",
      "\"missing_keywords\":[\"Rust\"]",
      "\"strengths\":[\"Clear\",\"Short\"]",
      "\"issues\":[\"Dates\"]",
      "\"improvement_opportunities\":[\"Add metrics\"]">>

\* the JSON object holding the fields whose numbers are in chosen
FieldsObject(fields, chosen) ==
    LET picked == SelectSeq([i \in 1..Len(fields) |-> i], LAMBDA i : i \in chosen) IN
    "{" \o Join([k \in 1..Len(picked) |-> fields[picked[k]]], ",") \o "}"

\* the answers of the reasoning service to the analysis prompt
AnalysisTexts ==
    {FieldsObject(AnalysisFields, chosen) : chosen \in SUBSET (1..Len(AnalysisFields))}
    \cup {"", "Sorry, I cannot help.", "null", "[]", "\"High\"",
          Fence \o "json\n" \o FieldsObject(AnalysisFields, {1, 4}) \o "\n" \o Fence,
          "{\"match_level\":\"\",\"ats_readiness\":null,\"missing_keywords\":[],\"strengths\":[]}",
          "{\"match_level\":\"High\",\"strengths\":\"Clear\"}",
          "{\"issues\":null}"}

\* the answers of the reasoning service to the rewrite prompt
RewriteTexts ==
    {"", "Here you go", "null", "[1]", "{}",
     "{\"summary\":{\"before\":\"Old\",\"after\":\" New \",\"explanation\":\"Shorter\"},"
       \o "\"skills\":{\"before\":\"\",\"after\":\"\",\"explanation\":\"None\"},"
       \o "\"experience\":[{\"before\":\"- ran ops\",\"after\":\"- Ran operations\"}]}",
     Fence \o "\n{\"skills\":{\"after\":\"Go, SQL\"},\"experience\":["
       \o "{\"before\":\"a\"},{\"after\":\"b\"},{\"explanation\":\"c\"},{\"before\":\"d\"}]}\n"
       \o Fence,
     "{\"summary\":\"A seasoned engineer\"}",
     "{\"experience\":[\"- ran ops\"]}",
     "{\"experience\":[{\"before\":[\"x\"]}]}"}

PipeIdle ==
    /\ stage = "Idle"
    /\ state = EmptyDict
    /\ trace = <<>>
    /\ llmCalls = <<>>
    /\ replies = <<>>
    /\ gateway = [analysis |-> Raised("not called").val, rewrite |-> Raised("not called").val]
    /\ escaped = ""

\* main.analyze, lines 85-88: the state the run starts from
InitPipe ==
    /\ stage = "Start"
    /\ state \in [cv_pdf_bytes : CvPdfs, job_description_text : JobTexts]
    /\ trace = <<>>
    /\ llmCalls = <<>>
    /\ replies = <<>>
    /\ gateway = [analysis |-> Raised("not called").val, rewrite |-> Raised("not called").val]
    /\ escaped = ""

RunParsingAgent ==
    /\ stage = "Start"
    /\ LET cv_text == ExtractTextFromPdf(state["cv_pdf_bytes"])
           updated == DictPut(state, "structured_cv", StructuredCV(cv_text))
       IN state' = DictPut(updated, "parsed_jd",
                           ParseJobDescription(state["job_description_text"]))
    /\ stage' = "Parsed"
    /\ trace' = Append(trace, "parsing")
    /\ UNCHANGED <<llmCalls, replies, gateway, escaped, nonPipeVars>>

RunAnalysisAgent ==
    /\ stage = "Parsed"
    /\ \E reply \in {LlmRaises} \cup LlmAnswers(AnalysisTexts) :
       \E llm_payload \in {GenerateAnalysisSummary(reply)} :
       \E report \in {AnalysisReport(state["structured_cv"], state["parsed_jd"], llm_payload)} :
            /\ gateway' = [gateway EXCEPT !.analysis = llm_payload]
            /\ replies' = Append(replies, reply)
            /\ IF report.ok
               THEN /\ state' = DictPut(state, "analysis_report", report.val)
                    /\ stage' = "Analyzed"
                    /\ UNCHANGED escaped
               ELSE /\ stage' = "Failed"
                    /\ escaped' = report.val.v
                    /\ UNCHANGED state
    /\ trace' = Append(trace, "analysis")
    /\ llmCalls' = Append(llmCalls, "analysis")
    /\ UNCHANGED nonPipeVars

\* lines 136-151: the sections, or the exception raised
RewrittenSections(structured_cv, rewrite_payload) ==
    IF rewrite_payload.t = "null" THEN Returned(PassThroughSections(structured_cv))
    ELSE PayloadToRewrites(rewrite_payload)

RunRewritingAgent ==
    /\ stage = "Analyzed"
    /\ \E reply \in {LlmRaises} \cup LlmAnswers(RewriteTexts) :
       \E rewrite_payload \in {GenerateRewrites(reply)} :
       \E rewritten \in {RewrittenSections(state["structured_cv"], rewrite_payload)} :
            /\ gateway' = [gateway EXCEPT !.rewrite = rewrite_payload]
            /\ replies' = Append(replies, reply)
            /\ IF rewritten.ok
               THEN \E final_markdown \in
                           {BuildMarkdownReport(state["analysis_report"], rewritten.val)} :
                       /\ state' = DictPut(DictPut(state, "rewritten_sections",
                                               [rewritten.val EXCEPT
                                                   !.final_markdown = PyStr(final_markdown)]),
                                           "final_markdown", final_markdown)
                       /\ stage' = "Rewritten"
                       /\ UNCHANGED escaped
               ELSE /\ stage' = "Failed"
                    /\ escaped' = rewritten.val.v
                    /\ UNCHANGED state
    /\ trace' = Append(trace, "rewriting")
    /\ llmCalls' = Append(llmCalls, "rewrite")
    /\ UNCHANGED nonPipeVars

\* the edge from rewriting to END: ainvoke returns the state
Finish ==
    /\ stage = "Rewritten"
    /\ stage' = "Done"
    /\ UNCHANGED <<state, trace, llmCalls, replies, gateway, escaped, nonPipeVars>>

NextPipe == RunParsingAgent \/ RunAnalysisAgent \/ RunRewritingAgent \/ Finish

-----------------------------------------------------------------------------
(* Knowledge Access Layer: data *)

Topics == {"ats_tips", "bullet_examples", "cv_best_practices"}

TopicToFilename(topic) ==
    CASE topic = "ats_tips" -> "ats_tips.md"
      [] topic = "bullet_examples" -> "bullet_examples.md"
      [] topic = "cv_best_practices" -> "cv_best_practices.md"

\* what path.read_text returns for the file of a topic
DiskText(topic) == "disk:" \o TopicToFilename(topic)

\* what the read_file tool of the server can answer with
McpTexts(topic) == {"mcp:" \o TopicToFilename(topic)}

NoResult == [src |-> "none", text |-> ""]

IdleReq == [pc |-> "idle", topic |-> "ats_tips", exists |-> TRUE, sid |-> 0, idx |-> 0,
            handle |-> 0, result |-> NoResult, afterFail |-> FALSE, touched |-> FALSE,
            waited |-> FALSE, failed |-> FALSE]

Ctx(kind, sid) == [kind |-> kind, sid |-> sid]

-----------------------------------------------------------------------------
(* Knowledge Access Layer: operations *)

otherKb == <<enabled>>

\* get_kb_text line 120: take the session path?
UseMcp_ignoresFlag == enabled
UseMcp == enabled /\ mcpAvailable

\* _ensure_session line 72: is a session to be set up?
SessionIsNone_always == TRUE
SessionIsNone == session = 0

\* asyncio.Lock.acquire() returns without waiting
LockFree == lockHolder = 0 /\ lockWaiters = <<>>

\* _disable_mcp(reason)
DisableMcp(reason) ==
    IF ~mcpAvailable
    THEN UNCHANGED <<mcpAvailable, mcpDisabledReason>>
    ELSE /\ mcpAvailable' = FALSE
         /\ mcpDisabledReason' = reason

SetReq(r, rec) == req' = [req EXCEPT ![r] = rec]

\* _ensure_session from the moment r holds _session_lock, up to its first await:
\* either the session exists and is returned (the lock is released, and
\* _read_via_mcp goes on to await call_tool), or setting one up begins.
EnsureSessionHolding(r, me) ==
    IF SessionIsNone
    THEN /\ lockHolder' = r
         /\ nextSid' = nextSid + 1
         /\ SetReq(r, [me EXCEPT !.pc = "aenter_stdio", !.sid = nextSid])
    ELSE /\ lockHolder' = 0
         /\ UNCHANGED nextSid
         /\ SetReq(r, [me EXCEPT !.pc = "call_tool", !.handle = session])

\* a get_kb_text that does not look whether the file is there
GetKbText_skipsExistsTest(r, topic, exists) ==
    /\ req[r].pc = "idle"
    /\ \A q \in Requests : q < r => req[q].pc # "idle"
    /\ UNCHANGED nonKbVars
    /\ LET me == [req[r] EXCEPT !.topic = topic, !.exists = exists,
                                !.afterFail = everFailed] IN
       IF FALSE
       THEN /\ SetReq(r, [me EXCEPT !.pc = "done",
                                    !.result = [src |-> "missing", text |-> ""]])
            /\ UNCHANGED <<lockHolder, lockWaiters, nextSid>>
       ELSE IF UseMcp
            THEN IF LockFree
                 THEN /\ EnsureSessionHolding(r, [me EXCEPT !.touched = TRUE])
                      /\ UNCHANGED lockWaiters
                 ELSE /\ SetReq(r, [me EXCEPT !.pc = "wait_lock", !.touched = TRUE,
                                                !.waited = TRUE])
                      /\ lockWaiters' = Append(lockWaiters, r)
                      /\ UNCHANGED <<lockHolder, nextSid>>
            ELSE /\ SetReq(r, [me EXCEPT !.pc = "disk"])
                 /\ UNCHANGED <<lockHolder, lockWaiters, nextSid>>
    /\ UNCHANGED <<mcpAvailable, mcpDisabledReason, session, contextStack,
                   closer, liveCtx, releaseLog, everFailed, otherKb>>

\* get_kb_text(topic) from its call to its first await; exists is what
\* target.exists() answers (line 116). Calls are numbered in the order made.
GetKbText(r, topic, exists) ==
    /\ req[r].pc = "idle"
    /\ \A q \in Requests : q < r => req[q].pc # "idle"
    /\ UNCHANGED nonKbVars
    /\ LET me == [req[r] EXCEPT !.topic = topic, !.exists = exists,
                                !.afterFail = everFailed] IN
       IF ~exists
       THEN /\ SetReq(r, [me EXCEPT !.pc = "done",
                                    !.result = [src |-> "missing", text |-> ""]])
            /\ UNCHANGED <<lockHolder, lockWaiters, nextSid>>
       ELSE IF UseMcp
            THEN IF LockFree
                 THEN /\ EnsureSessionHolding(r, [me EXCEPT !.touched = TRUE])
                      /\ UNCHANGED lockWaiters
                 ELSE /\ SetReq(r, [me EXCEPT !.pc = "wait_lock", !.touched = TRUE,
                                                !.waited = TRUE])
                      /\ lockWaiters' = Append(lockWaiters, r)
                      /\ UNCHANGED <<lockHolder, nextSid>>
            ELSE /\ SetReq(r, [me EXCEPT !.pc = "disk"])
                 /\ UNCHANGED <<lockHolder, lockWaiters, nextSid>>
    /\ UNCHANGED <<mcpAvailable, mcpDisabledReason, session, contextStack,
                   closer, liveCtx, releaseLog, everFailed, otherKb>>

\* a coroutine waiting in async-with on self._session_lock is given the lock
LockAcquired(r) ==
    /\ UNCHANGED nonKbVars
    /\ req[r].pc = "wait_lock"
    /\ lockHolder = 0
    /\ lockWaiters # <<>>
    /\ Head(lockWaiters) = r
    /\ lockWaiters' = Tail(lockWaiters)
    /\ EnsureSessionHolding(r, req[r])
    /\ UNCHANGED <<mcpAvailable, mcpDisabledReason, session, contextStack,
                   closer, liveCtx, releaseLog, everFailed, otherKb>>

\* The exception of _ensure_session (line 107) leaves the async-with, which
\* releases the lock, and reaches the handler of get_kb_text (lines 126-128),
\* which disables the layer; get_kb_text then goes on to await the disk read.
RaiseFromEnsure(r) ==
    /\ lockHolder' = 0
    /\ DisableMcp(req[r].topic)
    /\ everFailed' = TRUE
    /\ SetReq(r, [req[r] EXCEPT !.pc = "disk", !.failed = TRUE, !.idx = 0])

\* a handler that raises without unwinding
EstablishFailed_noUnwind(r) ==
    /\ RaiseFromEnsure(r)
    /\ UNCHANGED contextStack

\* lines 99-107: a step of setting the session up raised
EstablishFailed(r) ==
    IF contextStack = <<>>
    THEN /\ RaiseFromEnsure(r)
         /\ UNCHANGED contextStack
    ELSE /\ SetReq(r, [req[r] EXCEPT !.pc = "cleanup", !.idx = Len(contextStack)])
         /\ UNCHANGED <<lockHolder, mcpAvailable, mcpDisabledReason, everFailed,
                        contextStack>>

\* lines 83-85: await stdio_ctx.__aenter__()
AenterStdio(r) ==
    /\ UNCHANGED nonKbVars
    /\ req[r].pc = "aenter_stdio"
    /\ \/ /\ contextStack' = Append(contextStack, Ctx("stdio", req[r].sid))
          /\ liveCtx' = liveCtx \cup {Ctx("stdio", req[r].sid)}
          /\ SetReq(r, [req[r] EXCEPT !.pc = "aenter_session"])
          /\ UNCHANGED <<lockHolder, mcpAvailable, mcpDisabledReason, everFailed>>
       \/ /\ EstablishFailed(r)
          /\ UNCHANGED liveCtx
    /\ UNCHANGED <<session, lockWaiters, closer, nextSid, releaseLog, otherKb>>

\* lines 88-90: await session_ctx.__aenter__()
AenterSession(r) ==
    /\ UNCHANGED nonKbVars
    /\ req[r].pc = "aenter_session"
    /\ \/ /\ contextStack' = Append(contextStack, Ctx("session", req[r].sid))
          /\ liveCtx' = liveCtx \cup {Ctx("session", req[r].sid)}
          /\ SetReq(r, [req[r] EXCEPT !.pc = "initialize"])
          /\ UNCHANGED <<lockHolder, mcpAvailable, mcpDisabledReason, everFailed>>
       \/ /\ EstablishFailed(r)
          /\ UNCHANGED liveCtx
    /\ UNCHANGED <<session, lockWaiters, closer, nextSid, releaseLog, otherKb>>

\* lines 93-95 and 109: await session.initialize(); on success the session is
\* stored and returned, the lock is released, and call_tool is awaited
Initialize(r) ==
    /\ UNCHANGED nonKbVars
    /\ req[r].pc = "initialize"
    /\ \/ /\ session' = req[r].sid
          /\ lockHolder' = 0
          /\ SetReq(r, [req[r] EXCEPT !.pc = "call_tool", !.handle = req[r].sid])
          /\ UNCHANGED <<mcpAvailable, mcpDisabledReason, everFailed, contextStack>>
       \/ /\ EstablishFailed(r)
          /\ UNCHANGED session
    /\ UNCHANGED <<lockWaiters, closer, nextSid, liveCtx, releaseLog, otherKb>>

\* lines 101-107: one await of ctx.__aexit__ of the unwinding loop (an exception
\* of __aexit__ is swallowed); after the last one the stack is cleared and the
\* error is raised
Cleanup(r) ==
    /\ UNCHANGED nonKbVars
    /\ req[r].pc = "cleanup"
    /\ \E raised \in BOOLEAN :
           releaseLog' = Append(releaseLog, [ctx |-> contextStack[req[r].idx],
                                             by |-> "unwind", raised |-> raised])
    /\ liveCtx' = liveCtx \ {contextStack[req[r].idx]}
    /\ IF req[r].idx = 1
       THEN /\ contextStack' = <<>>
            /\ RaiseFromEnsure(r)
       ELSE /\ SetReq(r, [req[r] EXCEPT !.idx = req[r].idx - 1])
            /\ UNCHANGED <<contextStack, lockHolder, mcpAvailable, mcpDisabledReason,
                           everFailed>>
    /\ UNCHANGED <<session, lockWaiters, closer, nextSid, otherKb>>

\* _read_via_mcp lines 140-154: await session.call_tool("read_file"); text comes
\* back, or the call raises, or the result holds no text (line 154 raises)
CallTool(r) ==
    /\ UNCHANGED nonKbVars
    /\ req[r].pc = "call_tool"
    /\ \/ /\ \E t \in McpTexts(req[r].topic) :
               SetReq(r, [req[r] EXCEPT !.pc = "done",
                                        !.result = [src |-> "mcp", text |-> t]])
          /\ UNCHANGED <<mcpAvailable, mcpDisabledReason, everFailed>>
       \/ /\ DisableMcp(req[r].topic)
          /\ everFailed' = TRUE
          /\ SetReq(r, [req[r] EXCEPT !.pc = "disk", !.failed = TRUE])
    /\ UNCHANGED <<session, lockHolder, lockWaiters, contextStack, closer, nextSid,
                   liveCtx, releaseLog, otherKb>>

\* lines 132 and 156-159: await self._read_from_disk(target)
ReadFromDisk(r) ==
    /\ UNCHANGED nonKbVars
    /\ req[r].pc = "disk"
    /\ SetReq(r, [req[r] EXCEPT !.pc = "done",
                      !.result = [src |-> "disk", text |-> DiskText(req[r].topic)]])
    /\ UNCHANGED <<mcpAvailable, mcpDisabledReason, session, lockHolder, lockWaiters,
                   contextStack, closer, nextSid, liveCtx, releaseLog, everFailed,
                   otherKb>>

\* close() lines 163-165: called; with a session it starts the release loop
CloseCall ==
    /\ UNCHANGED nonKbVars
    /\ closer.pc = "idle"
    /\ closer.n < MaxCloses
    /\ closer' = IF session # 0
                 THEN [pc |-> "closing", idx |-> Len(contextStack), n |-> closer.n + 1]
                 ELSE [closer EXCEPT !.n = closer.n + 1]
    /\ UNCHANGED <<mcpAvailable, mcpDisabledReason, session, lockHolder, lockWaiters,
                   contextStack, req, nextSid, liveCtx, releaseLog, everFailed, otherKb>>

\* close() lines 165-171: one await of ctx.__aexit__ of the loop over
\* reversed(self._context_stack); after the last one the stack is cleared and
\* _session is set to None
CloseStep ==
    /\ UNCHANGED nonKbVars
    /\ closer.pc = "closing"
    /\ IF closer.idx >= 1 /\ closer.idx <= Len(contextStack)
       THEN /\ \E raised \in BOOLEAN :
                   releaseLog' = Append(releaseLog, [ctx |-> contextStack[closer.idx],
                                                     by |-> "close", raised |-> raised])
            /\ liveCtx' = liveCtx \ {contextStack[closer.idx]}
       ELSE UNCHANGED <<releaseLog, liveCtx>>
    /\ IF closer.idx <= 1
       THEN /\ contextStack' = <<>>
            /\ session' = 0
            /\ closer' = [closer EXCEPT !.pc = "idle", !.idx = 0]
       ELSE /\ closer' = [closer EXCEPT !.idx = closer.idx - 1]
            /\ UNCHANGED <<contextStack, session>>
    /\ UNCHANGED <<mcpAvailable, mcpDisabledReason, lockHolder, lockWaiters, req,
                   nextSid, everFailed, otherKb>>

\* FilesystemMCPClient.__init__ (lines 47-67) with MCP_ENABLED from the environment
InitKB ==
    /\ enabled \in BOOLEAN
    /\ mcpAvailable = enabled
    /\ mcpDisabledReason = (IF enabled THEN "" ELSE "MCP_ENABLED=false")
    /\ session = 0
    /\ lockHolder = 0
    /\ lockWaiters = <<>>
    /\ contextStack = <<>>
    /\ req = [r \in Requests |-> IdleReq]
    /\ closer = [pc |-> "idle", idx |-> 0, n |-> 0]
    /\ nextSid = 1
    /\ liveCtx = {}
    /\ releaseLog = <<>>
    /\ everFailed = FALSE

NextKB ==
    \/ \E r \in Requests, topic \in Topics, exists \in BOOLEAN : GetKbText(r, topic, exists)
    \/ \E r \in Requests : LockAcquired(r)
    \/ \E r \in Requests : AenterStdio(r)
    \/ \E r \in Requests : AenterSession(r)
    \/ \E r \in Requests : Initialize(r)
    \/ \E r \in Requests : Cleanup(r)
    \/ \E r \in Requests : CallTool(r)
    \/ \E r \in Requests : ReadFromDisk(r)
    \/ CloseCall
    \/ CloseStep

InitKBSpec == InitKB /\ NormIdle /\ HeurIdle /\ ExtIdle /\ PipeIdle

SpecKB == InitKBSpec /\ [][NextKB]_vars

-----------------------------------------------------------------------------
(* Knowledge Access Layer: properties *)

EstablishPcs == {"aenter_stdio", "aenter_session", "initialize"}

LiveSessions == {c \in liveCtx : c.kind = "session"}

LiveSubprocesses == {c \in liveCtx : c.kind = "stdio"}

\* C3: once a session-based retrieval has failed (its exception has reached
\* get_kb_text), the failing call and every call made afterwards return what
\* local storage holds for the topic (the empty string when the file is
\* missing), and the later calls never enter the session path.
C3_DegradedReadsLocalStorage ==
    \A r \in Requests :
        /\ req[r].afterFail =>
              /\ ~req[r].touched
              /\ req[r].handle = 0
              /\ req[r].pc \notin (EstablishPcs \cup {"wait_lock", "cleanup", "call_tool"})
        /\ (req[r].afterFail \/ req[r].failed) /\ req[r].pc = "done" =>
              \/ req[r].result = [src |-> "disk", text |-> DiskText(req[r].topic)]
              \/ /\ ~req[r].failed
                 /\ req[r].result = [src |-> "missing", text |-> ""]

\* C3 witness: a call whose session retrieval failed and a call made after
\* that failure have both returned the content of local storage.
C3_Witness ==
    \E r, q \in Requests :
        /\ req[r].failed /\ req[r].pc = "done" /\ req[r].result.src = "disk"
        /\ req[q].afterFail /\ req[q].pc = "done" /\ req[q].result.src = "disk"

\* C4 (as claimed): once the layer is disabled no step begins setting up a
\* session, under every interleaving.
C4_NoEstablishmentOnceDisabled == [][nextSid' # nextSid => mcpAvailable]_vars

\* C5: at most one protocol session and one subprocess are live at a time, and
\* every call that was handed a session holds the layer's one session (or a
\* session that close() has released since).
C5_AtMostOneLiveSession ==
    /\ Cardinality(LiveSessions) <= 1
    /\ Cardinality(LiveSubprocesses) <= 1
    /\ \A r \in Requests :
          req[r].handle # 0 =>
              \/ req[r].handle = session
              \/ Ctx("session", req[r].handle) \notin liveCtx
    /\ \A r, q \in Requests :
          /\ req[r].pc = "call_tool" /\ req[q].pc = "call_tool"
          /\ Ctx("session", req[r].handle) \in liveCtx
          /\ Ctx("session", req[q].handle) \in liveCtx
          => req[r].handle = req[q].handle

\* C5 witness: two calls raced for the session while none existed (one waited
\* on the lock); one session was set up and both use it.
C5_Witness ==
    \E r, q \in Requests :
        /\ r # q
        /\ req[q].waited
        /\ req[r].pc = "call_tool" /\ req[q].pc = "call_tool"
        /\ req[r].handle = session /\ req[q].handle = session
        /\ session # 0
        /\ nextSid = 2
        /\ Cardinality(LiveSessions) = 1

-----------------------------------------------------------------------------
(* Response Normalizer: specification and properties *)

\* the Knowledge Access Layer as constructed, with MCP_ENABLED unset
KBIdle == InitKB /\ enabled = TRUE

InitNormSpec == InitNorm /\ KBIdle /\ HeurIdle /\ ExtIdle /\ PipeIdle

SpecNorm == InitNormSpec /\ [][NextNorm]_vars

\* C9 (as claimed): for a payload that parses to a key/value map on its own,
\* the payload between an opening and a closing fence line parses to the
\* same result.
C9_FenceRoundTrip ==
    /\ Ran(nout) /\ Ran(nbare)
    /\ nin.open \in FencedOpens /\ nin.close \in FencedCloses
    /\ nbare.ok /\ nbare.val.t = "obj"
    => nout = nbare

\* C10 (as claimed): parse_json_from_llm returns only key/value maps, and
\* raises for a text that is empty or only a fence once cleaned.
C10_OnlyMapsReturned ==
    Ran(nout) =>
        /\ nout.ok => nout.val.t = "obj"
        /\ Len(Strip(nin.payload)) = 0 => ~nout.ok

-----------------------------------------------------------------------------
(* Heuristic analysis: specification and properties *)

InitHeurSpec == InitHeur /\ KBIdle /\ NormIdle /\ ExtIdle /\ PipeIdle

SpecHeur == InitHeurSpec /\ [][NextHeur]_vars

\* every required skill is among the extracted skills, letter case aside
RequiredCovered ==
    \A i \in 1..Len(hin.required_skills) :
        \E j \in 1..Len(hin.cv_skills) :
            Lower(hin.cv_skills[j]) = Lower(hin.required_skills[i])

\* C7 as stated: for all postings where required skills are a subset of the
\* extracted skills (compared case-insensitively), the heuristic
\* missing-keyword list is empty and the heuristic match level is "High".
C7_CoveredPostingIsHigh ==
    hout.pc = "estimated" /\ RequiredCovered
        => hout.missing = <<>> /\ hout.level = "High"

\* C7 amended: for all postings with at least one required skill where
\* required skills are a subset of the extracted skills (compared
\* case-insensitively), the heuristic missing-keyword list is empty and the
\* heuristic match level is "High"; with no required skill the list is empty
\* and the level is "Unknown".
C7_CoveredNonEmptyPostingIsHigh ==
    /\ hout.pc \in {"detected", "estimated"} /\ RequiredCovered => hout.missing = <<>>
    /\ hout.pc = "estimated" /\ RequiredCovered =>
           hout.level = IF hin.required_skills = <<>> THEN "Unknown" ELSE "High"

\* several required skills, each extracted in another letter case, rated High
C7_Witness ==
    /\ hout.pc = "estimated"
    /\ Len(hin.required_skills) >= 2
    /\ RequiredCovered
    /\ \A i \in 1..Len(hin.required_skills) :
           \A j \in 1..Len(hin.cv_skills) : hin.cv_skills[j] # hin.required_skills[i]
    /\ hout.level = "High"

\* C8: the heuristic match level is Unknown when the posting has zero
\* required skills; otherwise it is High exactly when
\* 4*(required-missing) >= 3*required (coverage >= 0.75), Medium exactly when
\* 0.4 <= coverage < 0.75, and Low otherwise; it is always one of High,
\* Medium, Low, Unknown.
C8_MatchLevelThresholds ==
    hout.pc = "estimated" =>
        LET required == Len(hin.required_skills)
            missing == Len(hout.missing)
        IN /\ hout.level \in {"High", "Medium", "Low", "Unknown"}
           /\ hout.level = "Unknown" <=> required = 0
           /\ required > 0 =>
                  /\ hout.level = "High" <=> 4 * (required - missing) >= 3 * required
                  /\ hout.level = "Medium" <=>
                         /\ 5 * (required - missing) >= 2 * required
                         /\ 4 * (required - missing) < 3 * required
                  /\ hout.level = "Low" <=> 5 * (required - missing) < 2 * required

\* coverage exactly 0.4: three of five required skills missing, rated Medium
C8_Witness ==
    /\ hout.pc = "estimated"
    /\ Len(hin.required_skills) = 5
    /\ Len(hout.missing) = 3
    /\ hout.level = "Medium"

-----------------------------------------------------------------------------
(* Pipeline: specification and properties *)

InitPipeSpec == InitPipe /\ KBIdle /\ NormIdle /\ HeurIdle /\ ExtIdle

SpecPipe == InitPipeSpec /\ [][NextPipe]_vars

\* C1: a pipeline run always runs to completion: for every outcome of the
\* reasoning service in the analysis and rewrite calls (a raised error, empty
\* text, non-JSON text, or any text that parses as JSON), the analysis and
\* rewriting stages each produce their output, the report is rendered, and no
\* exception escapes the run.
C1_RunAlwaysCompletes ==
    /\ stage # "Failed" /\ escaped = ""
    /\ (\E i \in 1..Len(trace) : trace[i] = "analysis") => "analysis_report" \in DOMAIN state
    /\ (\E i \in 1..Len(trace) : trace[i] = "rewriting") =>
           {"rewritten_sections", "final_markdown"} \subseteq DOMAIN state

\* the transitions of the pipeline's state machine
StageOrder ==
    {<<"Start", "Parsed">>, <<"Parsed", "Analyzed">>, <<"Analyzed", "Rewritten">>,
     <<"Rewritten", "Done">>}

\* C2: in every pipeline run the stages execute in the strict order parsing,
\* analysis, rewriting: each stage runs exactly once, no stage starts before
\* its predecessor has completed, and the only transitions are
\* Start -> Parsed -> Analyzed -> Rewritten -> Done (no retry, rollback or
\* skip transition).
C2_StrictStageOrder ==
    [][/\ stage' # stage => <<stage, stage'>> \in StageOrder
       /\ trace' # trace =>
              trace' = SubSeq(<<"parsing", "analysis", "rewriting">>, 1, Len(trace) + 1)]_vars

\* the analysis stage has built its report from a payload of the gateway
PayloadMerged ==
    stage \in {"Analyzed", "Rewritten", "Done"} /\ gateway.analysis.t = "obj"

AnalysisKeys ==
    {"match_level", "ats_readiness", "missing_keywords", "strengths", "issues",
     "improvement_opportunities"}

\* a field of an AnalysisReport as a payload value
FieldValue(report, key) ==
    IF key \in {"match_level", "ats_readiness"} THEN report[key] ELSE PyList(report[key])

\* the report the heuristic fallback computes for the run's documents
HeuristicReport ==
    BuildHeuristicReport(state["structured_cv"], state["parsed_jd"],
        DetectMissingKeywords(state["structured_cv"].skills, state["parsed_jd"].required_skills))

SameValue(a, b) == a.t = b.t /\ a.v = b.v

\* C6 as stated: when the reasoning gateway returns an analysis payload, each
\* AnalysisReport field that is present in the payload is taken from the
\* payload, and each field that is absent from the payload takes the value
\* the deterministic heuristic fallback computes for that same field.
C6_AbsentFieldsTakeHeuristic ==
    PayloadMerged =>
        \A key \in AnalysisKeys :
            SameValue(FieldValue(state["analysis_report"], key),
                      IF key \in DOMAIN gateway.analysis.v THEN gateway.analysis.v[key]
                      ELSE FieldValue(HeuristicReport, key))

\* C6 amended: when the reasoning gateway returns an analysis payload and the
\* analysis stage builds its report from it, match level and missing
\* keywords are taken from the payload when present and non-empty and
\* otherwise take the value the heuristic fallback computes for that field;
\* ATS readiness is taken from the payload when present and non-empty and is
\* otherwise "Unknown"; strengths, issues and improvement opportunities are
\* taken from the payload when present and are otherwise the empty list.
C6_MergePerField ==
    PayloadMerged =>
        \A key \in AnalysisKeys :
            LET present == key \in DOMAIN gateway.analysis.v
                filled == present /\ Truthy(gateway.analysis.v[key])
            IN SameValue(FieldValue(state["analysis_report"], key),
                   CASE key \in {"match_level", "missing_keywords"} ->
                            IF filled THEN gateway.analysis.v[key]
                            ELSE FieldValue(HeuristicReport, key)
                     [] key = "ats_readiness" ->
                            IF filled THEN gateway.analysis.v[key] ELSE PyStr("Unknown")
                     [] OTHER ->
                            IF present THEN gateway.analysis.v[key] ELSE PyList(<<>>))

\* a payload with strengths and without match level and missing keywords, for
\* a posting whose heuristic level is Medium with one missing keyword
C6_Witness ==
    /\ PayloadMerged
    /\ "strengths" \in DOMAIN gateway.analysis.v
    /\ {"match_level", "missing_keywords"} \cap DOMAIN gateway.analysis.v = {}
    /\ state["analysis_report"].match_level = PyStr("Medium")
    /\ Len(state["analysis_report"].missing_keywords) = 1
    /\ state["analysis_report"].strengths = <<"Clear", "Short">>

\* C11: each reasoning-gateway capability (analysis, rewrite) invokes the
\* reasoning service exactly once in the run of its stage and never a second
\* time; when that call raised, or the normalizer reported its text as
\* malformed, the gateway returned None and the stage used its fallback: the
\* heuristic report, or the pass-through sections.
C11_InvokedOnceNoRetry ==
    LET Invocations(chain) == Cardinality({i \in 1..Len(llmCalls) : llmCalls[i] = chain})
        Started(node) == \E i \in 1..Len(trace) : trace[i] = node
        Unusable(reply) == reply.raised \/ ~ParseJsonFromLlm(reply.raw).ok
    IN /\ Invocations("analysis") = IF Started("analysis") THEN 1 ELSE 0
       /\ Invocations("rewrite") = IF Started("rewriting") THEN 1 ELSE 0
       /\ Len(replies) = Len(llmCalls)
       /\ stage = "Done" => llmCalls = <<"analysis", "rewrite">>
       /\ (Started("analysis") /\ Unusable(replies[1])) =>
              /\ gateway.analysis = PyNone
              /\ "analysis_report" \in DOMAIN state
              /\ state["analysis_report"] = HeuristicReport
       /\ (Started("rewriting") /\ Unusable(replies[2])) =>
              /\ gateway.rewrite = PyNone
              /\ "rewritten_sections" \in DOMAIN state
              /\ [state["rewritten_sections"] EXCEPT !.final_markdown = PyNone]
                     = PassThroughSections(state["structured_cv"])

\* a finished run whose analysis call raised and whose rewrite call answered
\* text that is not JSON
C11_Witness ==
    /\ stage = "Done"
    /\ llmCalls = <<"analysis", "rewrite">>
    /\ replies[1].raised
    /\ replies[2] = [raised |-> FALSE, raw |-> "Here you go"]
    /\ gateway = [analysis |-> PyNone, rewrite |-> PyNone]

\* the rewriting stage has stored sections built without a gateway payload
RewriteFellBack ==
    gateway.rewrite = PyNone /\ "rewritten_sections" \in DOMAIN state

\* C12 as stated: when the rewrite gateway returns None, the rewriting stage
\* produces pass-through sections: for the summary, the skills and each of up
\* to 3 experience entries 'after' equals 'before', and each of those sections
\* carries the explanation text "Rewriting unavailable."
C12_PassThroughAllExplained ==
    RewriteFellBack =>
        LET rewritten == state["rewritten_sections"] IN
        /\ rewritten.summary_after = rewritten.summary_before
        /\ rewritten.skills_after = rewritten.skills_before
        /\ rewritten.summary_explanation = PyStr("Rewriting unavailable.")
        /\ rewritten.skills_explanation = PyStr("Rewriting unavailable.")
        /\ Len(rewritten.experience_items) <= 3
        /\ \A i \in 1..Len(rewritten.experience_items) :
               /\ rewritten.experience_items[i].after = rewritten.experience_items[i].before
               /\ rewritten.experience_items[i].explanation = PyStr("Rewriting unavailable.")

\* C12 amended: when the rewrite gateway returns None, the rewriting stage
\* produces pass-through sections: the summary's and the skills' 'before' and
\* 'after' both hold the extracted summary and the comma-joined extracted
\* skills (None when there are none) with the explanation text
\* "Rewriting unavailable."; the experience items are the first 3 extracted
\* entries (all of them when fewer), in order, each with 'before' and 'after'
\* both the entry's raw text and with no explanation.
C12_PassThroughSections ==
    RewriteFellBack =>
        LET rewritten == state["rewritten_sections"]
            structured_cv == state["structured_cv"]
            skills == Join(structured_cv.skills, ", ")
            count == IF Len(structured_cv.experience) < 3 THEN Len(structured_cv.experience)
                     ELSE 3
        IN /\ rewritten.summary_before = structured_cv.summary
           /\ rewritten.summary_after = structured_cv.summary
           /\ rewritten.skills_before = (IF skills = "" THEN PyNone ELSE PyStr(skills))
           /\ rewritten.skills_after = rewritten.skills_before
           /\ rewritten.summary_explanation = PyStr("Rewriting unavailable.")
           /\ rewritten.skills_explanation = PyStr("Rewriting unavailable.")
           /\ Len(rewritten.experience_items) = count
           /\ \A i \in 1..count :
                  /\ rewritten.experience_items[i].before = structured_cv.experience[i].raw_text
                  /\ rewritten.experience_items[i].after = structured_cv.experience[i].raw_text
                  /\ rewritten.experience_items[i].explanation = PyNone

\* a fallback for a résumé with four experience entries and a skills line
C12_Witness ==
    /\ RewriteFellBack
    /\ stage = "Done"
    /\ Len(state["structured_cv"].experience) = 4
    /\ Len(state["rewritten_sections"].experience_items) = 3
    /\ state["rewritten_sections"].skills_after.t = "str"

-----------------------------------------------------------------------------
(* Extraction Engine: specification and properties                          *)

InitExtSpec == InitExt /\ KBIdle /\ NormIdle /\ HeurIdle /\ PipeIdle

SpecExt == InitExtSpec /\ [][NextExt]_vars

\* C13 as stated: for all input texts, the skill list produced by résumé
\* skill extraction holds no two entries that are equal under case-folding.
C13_NoTwoEqualUnderCaseFolding ==
    xout.pc = "skills" =>
        \A i, j \in 1..Len(xout.lines) :
            CaseFold(xout.lines[i]) = CaseFold(xout.lines[j]) => i = j

\* C13 amended: the skill list produced by résumé skill extraction holds no
\* two entries that are equal when lower-cased, and it is the list of the
\* section's cleaned tokens (longer than one character) with every token
\* dropped that equals an earlier one when lower-cased: of each group the
\* first-seen token is kept, in the original order.
C13_SkillsDeduplicated ==
    xout.pc = "skills" =>
        LET cleaned == [i \in 1..Len(xin.items) |->
                           StripChars(xin.items[i], {Bullet, "-", "*", " ", "\n"})]
            tokens == SelectSeq(cleaned, LAMBDA token : Len(token) > 1)
            first == SelectSeq([i \in 1..Len(tokens) |-> i],
                         LAMBDA i : \A j \in 1..(i - 1) : Lower(tokens[j]) # Lower(tokens[i]))
        IN /\ Deduplicated(xout.lines)
           /\ xout.lines = [k \in 1..Len(first) |-> tokens[first[k]]]

\* a section with Go, go and SQL, of which Go and SQL are kept
C13_Witness ==
    /\ xout.pc = "skills"
    /\ xin.items = <<"Go", "go", "SQL">>
    /\ xout.lines = <<"Go", "SQL">>

\* C20: in the posting extractor's section scan, once a header line is
\* matched every subsequent non-blank line up to the first blank line is
\* collected, in order and with leading bullet markers stripped, and
\* collection stops at that blank line; the result is exactly those lines (a
\* later line inside the section does not discard lines already collected).
C20_SectionUpToFirstBlank ==
    xout.pc = "section" =>
        LET blank == IF \E i \in 1..Len(xin.items) : Strip(xin.items[i]) = ""
                     THEN CHOOSE i \in 1..Len(xin.items) :
                              /\ Strip(xin.items[i]) = ""
                              /\ \A k \in 1..(i - 1) : Strip(xin.items[k]) # ""
                     ELSE Len(xin.items) + 1
        IN xout.lines = [i \in 1..(blank - 1) |->
                            LStripChars(Strip(xin.items[i]), {"-", Bullet, "*", " "})]

\* C14: in the rendered report every before/after section (Summary, Skills,
\* and each numbered Experience entry) whose 'before' and 'after' are both
\* empty is omitted entirely: no heading or other line is emitted for it; the
\* report always starts with the title line and ends with the fixed
\* attribution line.
C14_EmptySectionsOmitted ==
    "final_markdown" \in DOMAIN state =>
        LET lines == Split(state["final_markdown"], "\n")
            rewrites == state["rewritten_sections"]
            Emitted(line) == \E k \in 1..Len(lines) : lines[k] = line
            Empty(before, after) == ~Truthy(before) /\ ~Truthy(after)
        IN /\ lines[1] = "## CV Optimization Assistant"
           /\ lines[Len(lines)] = "_Generated by the CV Optimization Assistant._"
           /\ Empty(rewrites.summary_before, rewrites.summary_after) => ~Emitted("### Summary")
           /\ Empty(rewrites.skills_before, rewrites.skills_after) => ~Emitted("### Skills")
           /\ \A idx \in 1..Len(rewrites.experience_items) :
                  Empty(rewrites.experience_items[idx].before,
                        rewrites.experience_items[idx].after)
                      => ~Emitted("#### Role " \o ToString(idx))

\* C15: the shared pipeline state is append-only: each stage adds only its
\* own output fields (parsing: structured_cv and parsed_jd; analysis:
\* analysis_report; rewriting: rewritten_sections and final_markdown), leaves
\* every field written by the caller or by an earlier stage unchanged, and
\* never removes a field.
C15_AppendOnlyState ==
    [][LET added == DOMAIN state' \ DOMAIN state
           own == CASE stage = "Start" -> {"structured_cv", "parsed_jd"}
                    [] stage = "Parsed" -> {"analysis_report"}
                    [] stage = "Analyzed" -> {"rewritten_sections", "final_markdown"}
                    [] OTHER -> {}
       IN /\ DOMAIN state \subseteq DOMAIN state'
          /\ \A field \in DOMAIN state : state'[field] = state[field]
          /\ added \subseteq own
          /\ stage' \in {"Parsed", "Analyzed", "Rewritten"} => added = own]_vars

\* a finished run of an uploaded document: all seven fields are there
C15_Witness ==
    /\ stage = "Done"
    /\ state["cv_pdf_bytes"].kind = "pdf"
    /\ state["job_description_text"] # ""
    /\ DOMAIN state = {"cv_pdf_bytes", "job_description_text", "structured_cv", "parsed_jd",
                       "analysis_report", "rewritten_sections", "final_markdown"}

\* C19: the RewrittenSections produced by the rewriting stage holds at most
\* three experience entries in every run, whether it is built from the
\* reasoning-gateway payload or from the pass-through fallback.
C19_AtMostThreeExperienceItems ==
    "rewritten_sections" \in DOMAIN state =>
        Len(state["rewritten_sections"].experience_items) <= 3

-----------------------------------------------------------------------------
(* Knowledge Access Layer: further properties *)

\* C16: if the file of the requested topic does not exist in the local
\* reference-document root, get_kb_text returns the empty string at once, in
\* every state of the layer (enabled, session active, degraded), without
\* setting up or using a session and without changing whether the layer is
\* enabled.
C16_MissingFileReturnsEmpty ==
    [][\A r \in Requests :
           (req'[r].pc # "idle" /\ ~req'[r].exists) =>
               /\ req'[r].pc = "done"
               /\ req'[r].result = [src |-> "missing", text |-> ""]
               /\ ~req'[r].touched /\ req'[r].handle = 0 /\ req'[r].sid = 0
               /\ req[r].pc = "idle" =>
                      UNCHANGED <<mcpAvailable, mcpDisabledReason, enabled, session,
                                  lockHolder, lockWaiters, contextStack, nextSid,
                                  liveCtx, releaseLog, everFailed>>]_vars

\* a call for a missing file has returned while another call holds the live
\* session
C16_Witness ==
    \E r, q \in Requests :
        /\ req[r].pc = "done" /\ ~req[r].exists /\ req[r].result.src = "missing"
        /\ q < r
        /\ req[q].pc = "call_tool" /\ req[q].handle = session /\ session # 0
        /\ mcpAvailable

\* C17: if setting a session up fails at any step (opening the channel,
\* entering the protocol session, the handshake), every resource acquired so
\* far is released, in reverse order of acquisition, before the error reaches
\* the caller, and afterwards the layer records no session and holds no
\* acquired resource.
C17_FailedEstablishmentUnwinds ==
    [][\A r \in Requests :
           (req[r].pc \in EstablishPcs \cup {"cleanup"} /\ ~req[r].failed /\ req'[r].failed) =>
               LET mine == SelectSeq(releaseLog', LAMBDA e : e.ctx.sid = req[r].sid) IN
               /\ session' = 0
               /\ contextStack' = <<>>
               /\ liveCtx' = {}
               /\ lockHolder' = 0
               /\ \A i \in 1..Len(mine) : mine[i].by = "unwind"
               /\ [i \in 1..Len(mine) |-> mine[i].ctx.kind]
                      \in {<<>>, <<"stdio">>, <<"session", "stdio">>}
               /\ req[r].pc = "cleanup" => Len(mine) = Len(contextStack)]_vars

\* the handshake failed: the protocol session, whose __aexit__ raised, and
\* then the channel were released, and the error has reached get_kb_text
C17_Witness ==
    \E r \in Requests :
        /\ req[r].failed /\ req[r].pc = "disk" /\ req[r].sid # 0
        /\ releaseLog = <<[ctx |-> Ctx("session", req[r].sid), by |-> "unwind",
                           raised |-> TRUE],
                          [ctx |-> Ctx("stdio", req[r].sid), by |-> "unwind",
                           raised |-> FALSE]>>
        /\ session = 0 /\ contextStack = <<>> /\ liveCtx = {}

\* C18: session teardown (close) releases the acquired resources in strict
\* reverse order of acquisition (protocol session before channel), a failure
\* while releasing one resource is swallowed and does not keep the remaining
\* ones from being released, and after close returns the layer records no
\* session and an empty resource list.
C18_CloseReleasesInReverse ==
    [][closer'.pc = "idle" /\ closer' # closer =>
           /\ session' = 0
           /\ contextStack' = <<>>
           /\ closer.pc = "closing" =>
                  LET mine == SelectSeq(releaseLog',
                                  LAMBDA e : e.by = "close" /\ e.ctx.sid = session)
                  IN /\ Len(mine) = Len(contextStack)
                     /\ \A i \in 1..Len(mine) :
                            mine[i].ctx = contextStack[Len(contextStack) + 1 - i]
                     /\ [i \in 1..Len(mine) |-> mine[i].ctx.kind] = <<"session", "stdio">>]_vars

\* C21: under every interleaving of close() with concurrent get_kb_text calls,
\* no call is handed a session by _ensure_session, or issues a read on a
\* session, after close() has started to release that session's resources
\* (the call_tool of a call follows its _ensure_session without an await, so
\* the step that hands the session over is the step that issues the read).
C21_NoSessionUseAfterCloseStarted ==
    [][\A r \in Requests :
           (req'[r].handle # req[r].handle /\ req'[r].handle # 0) =>
               /\ ~(closer.pc = "closing" /\ session = req'[r].handle)
               /\ \A i \in 1..Len(releaseLog) :
                      ~(releaseLog[i].by = "close" /\ releaseLog[i].ctx.sid = req'[r].handle)]_vars

=============================================================================
